---- MODULE Spec2Model ----
(***************************************************************************)
(* Model of scripts/package_it.py: the root locator (find_project_root),   *)
(* the collector and writer (add_file, create_package) and the             *)
(* orchestrator (package_all).                                             *)
(*                                                                         *)
(* Strings whose characters matter (sort keys, glob patterns, prefixes,    *)
(* file names) are looked up in Chars, which gives their code points.      *)
(***************************************************************************)
EXTENDS Integers, Sequences, FiniteSets, TLC

(* ------------------------------ bounds -------------------------------- *)
\* largest number of files in the project tree
MaxFiles == 3
\* largest number of invocations of package_all
MaxRuns == 2
\* largest number of ancestors above the start path given to the locator
MaxDepth == 3

(* --------------------------- configuration ---------------------------- *)
PROJECT_TITLE == "secure_gate"
OUTPUT_DIR == "code_packages"

\* code points of every string the model takes apart
Chars ==
  [ s \in {"Cargo.toml", "src", "tests", "fuzz/fuzz_targets",
           "src/a.rs", "src/A.rs", "src/B.rs", "src/mod.rs", "tests/mod.rs",
           "*.rs", "mod.rs", "secure_gate", "fuzz", "mod"} |->
    CASE s = "Cargo.toml"        -> <<67,97,114,103,111,46,116,111,109,108>>
      [] s = "src"               -> <<115,114,99>>
      [] s = "tests"             -> <<116,101,115,116,115>>
      [] s = "fuzz/fuzz_targets" -> <<102,117,122,122,47,102,117,122,122,95,116,97,114,103,101,116,115>>
      [] s = "src/a.rs"          -> <<115,114,99,47,97,46,114,115>>
      [] s = "src/A.rs"          -> <<115,114,99,47,65,46,114,115>>
      [] s = "src/B.rs"          -> <<115,114,99,47,66,46,114,115>>
      [] s = "src/mod.rs"        -> <<115,114,99,47,109,111,100,46,114,115>>
      [] s = "tests/mod.rs"      -> <<116,101,115,116,115,47,109,111,100,46,114,115>>
      [] s = "*.rs"              -> <<42,46,114,115>>
      [] s = "mod.rs"            -> <<109,111,100,46,114,115>>
      [] s = "secure_gate"       -> <<115,101,99,117,114,101,95,103,97,116,101>>
      [] s = "fuzz"              -> <<102,117,122,122>>
      [] s = "mod"               -> <<109,111,100>> ]

SLASH == 47
STAR == 42
UNDERSCORE == 95
DOT_TXT == <<46,116,120,116>>

(* ------------------------- string operations -------------------------- *)
\* str.lower() on one code point (ASCII letters)
LowerChar(c) == IF c >= 65 /\ c <= 90 THEN c + 32 ELSE c

\* str.lower()
Lower(cs) == [i \in 1..Len(cs) |-> LowerChar(cs[i])]

\* Python's < on two strings: code point by code point, a proper prefix first
RECURSIVE StrLess(_, _)
StrLess(a, b) ==
  IF b = <<>> THEN FALSE
  ELSE IF a = <<>> THEN TRUE
  ELSE IF Head(a) # Head(b) THEN Head(a) < Head(b)
  ELSE StrLess(Tail(a), Tail(b))

\* fnmatch of one path component against a pattern: '*' matches any run of
\* characters, every other character matches itself
RECURSIVE GlobMatch(_, _)
GlobMatch(pat, name) ==
  IF pat = <<>> THEN name = <<>>
  ELSE IF Head(pat) = STAR
       THEN GlobMatch(Tail(pat), name)
            \/ (name # <<>> /\ GlobMatch(pat, Tail(name)))
  ELSE name # <<>> /\ Head(name) = Head(pat) /\ GlobMatch(Tail(pat), Tail(name))

\* index of the last '/' of a path, 0 when it has none
RECURSIVE LastSlash(_, _)
LastSlash(cs, i) ==
  IF i = 0 THEN 0 ELSE IF cs[i] = SLASH THEN i ELSE LastSlash(cs, i - 1)

\* Path.name: the last component
BaseName(cs) == SubSeq(cs, LastSlash(cs, Len(cs)) + 1, Len(cs))

\* the path lies strictly below directory d
IsUnder(cs, d) ==
  /\ Len(cs) > Len(d) + 1
  /\ SubSeq(cs, 1, Len(d)) = d
  /\ cs[Len(d) + 1] = SLASH

\* f"{n:03d}": decimal digits, zero-padded to a width of at least 3
RECURSIVE Digits(_)
Digits(n) == IF n < 10 THEN <<n>> ELSE Digits(n \div 10) \o <<n % 10>>

RECURSIVE ZeroPad(_, _)
ZeroPad(ds, w) == IF Len(ds) >= w THEN ds ELSE ZeroPad(<<0>> \o ds, w)

Fmt03d(n) == ZeroPad(Digits(n), 3)

\* value of a digit string
RECURSIVE DigitsValue(_)
DigitsValue(ds) ==
  IF ds = <<>> THEN 0 ELSE 10 * DigitsValue(SubSeq(ds, 1, Len(ds) - 1)) + ds[Len(ds)]

(* ------------------------------- time --------------------------------- *)
\* The wall clock counts milliseconds of local time since 2025-11-01
\* 00:00:00.000 and is read by datetime.now(); the model stays inside
\* November 2025, so the year and month fields are fixed.
MS_PER_SECOND == 1000
MS_PER_DAY == 86400000

\* the readings the clock gives in the model: two within 09:59:59 and one
\* within 10:00:00 of the first day
Instants == {35999500, 35999900, 36000100}

D(n) == 48 + n
\* a two-digit field without the leading zero
TwoDigits_Unpadded(n) == IF n < 10 THEN <<D(n)>> ELSE <<D((n \div 10) % 10), D(n % 10)>>

TwoDigits(n) == <<D((n \div 10) % 10), D(n % 10)>>
ThreeDigits(n) == <<D((n \div 100) % 10), D((n \div 10) % 10), D(n % 10)>>
YEAR_MONTH == <<50,48,50,53,49,49>>
YEAR_DASH_MONTH_DASH == <<50,48,50,53,45,49,49,45>>

DayOf(ms) == 1 + ms \div MS_PER_DAY
HourOf(ms) == (ms % MS_PER_DAY) \div 3600000
MinuteOf(ms) == (ms % 3600000) \div 60000
SecondOf(ms) == (ms % 60000) \div MS_PER_SECOND

\* datetime.now().strftime("%Y%m%d_%H%M%S")
format_output_timestamp(now) ==
  YEAR_MONTH \o TwoDigits(DayOf(now)) \o <<UNDERSCORE>>
    \o TwoDigits(HourOf(now)) \o TwoDigits(MinuteOf(now)) \o TwoDigits(SecondOf(now))

\* datetime.fromtimestamp(ts).strftime("%Y-%m-%d %H:%M:%S.%f")[:-3]
\* ts is <<milliseconds, microseconds within the millisecond>>; %f prints six
\* fraction digits and the slice cuts the last three off
format_timestamp(ts) ==
  LET ms == ts[1]
      full == YEAR_DASH_MONTH_DASH \o TwoDigits(DayOf(ms)) \o <<32>>
                \o TwoDigits(HourOf(ms)) \o <<58>> \o TwoDigits(MinuteOf(ms)) \o <<58>>
                \o TwoDigits(SecondOf(ms)) \o <<46>>
                \o ThreeDigits(ms % MS_PER_SECOND) \o ThreeDigits(ts[2])
  IN SubSeq(full, 1, Len(full) - 3)

(* ---------------------------- project tree ---------------------------- *)
\* every file the project tree may hold, and the directories of the tree
Universe == {"Cargo.toml", "src/a.rs", "src/A.rs", "src/B.rs", "src/mod.rs", "tests/mod.rs"}
DirUniverse == {"src", "tests"}

\* the directories a set of files needs
DirsOf(fs) == {d \in DirUniverse : \E f \in fs : IsUnder(Chars[f], Chars[d])}

\* read_text(): the text of each file
ContentOf(f) ==
  CASE f = "Cargo.toml" -> <<91,112,93,10>>
    [] f = "src/mod.rs" -> <<109,111,100,32,120,59,10,10>>
    [] f = "tests/mod.rs" -> <<>>
    [] OTHER -> <<102,110,32,97,40,41,123,125>>

\* stat().st_ctime and stat().st_mtime
CTimeOf(f) == IF f = "Cargo.toml" THEN <<1000123, 456>> ELSE <<35999123, 999>>
MTimeOf(f) == IF f = "Cargo.toml" THEN <<1000123, 456>> ELSE <<777599999, 999>>

\* str.rstrip(): drop trailing whitespace
IsSpace(c) == c \in {9, 10, 11, 12, 13, 32}
RECURSIVE rstrip(_)
rstrip(cs) ==
  IF cs # <<>> /\ IsSpace(cs[Len(cs)]) THEN rstrip(SubSeq(cs, 1, Len(cs) - 1)) ELSE cs

(* --------------------------- package list ----------------------------- *)
\* the PACKAGES list of the script
RepoPackages ==
  << [suffix |-> "src", root_files |-> <<"Cargo.toml", "CHANGELOG.md", "README.md">>,
      include_dirs |-> <<"src">>, file_pattern |-> "*.rs",
      description |-> "Full library source + Cargo.toml"],
     [suffix |-> "tests", root_files |-> <<>>,
      include_dirs |-> <<"tests">>, file_pattern |-> "*.rs",
      description |-> "All integration tests"],
     [suffix |-> "fuzz",
      root_files |-> <<"fuzz/Cargo.toml", ".github/workflows/fuzz-nightly.yml",
                       ".github/workflows/fuzz-quick.yml">>,
      include_dirs |-> <<"fuzz/fuzz_targets">>, file_pattern |-> "*.rs",
      description |-> "Fuzzing targets"],
     [suffix |-> "mod", root_files |-> <<>>,
      include_dirs |-> <<"src", "tests">>, file_pattern |-> "mod.rs",
      description |-> "Only mod.rs files from src/ and tests/"] >>

\* a list whose root files and directories overlap
OverlapPackages ==
  << [suffix |-> "src", root_files |-> <<"src/B.rs", "Cargo.toml", "src/B.rs">>,
      include_dirs |-> <<"src", "tests", "src">>, file_pattern |-> "*.rs",
      description |-> "source"],
     [suffix |-> "mod", root_files |-> <<"tests">>,
      include_dirs |-> <<"tests", "src">>, file_pattern |-> "mod.rs",
      description |-> "modules"] >>

PackageLists == {RepoPackages, OverlapPackages}

(* ------------------------------ state --------------------------------- *)
VARIABLES
  files,          \* the files of the project tree (root-relative posix paths)
  dirs,           \* the directories of the project tree
  PACKAGES,       \* the package list
  clock,          \* the last reading of the wall clock, in milliseconds
  pc,             \* where the current invocation stands
  runs,           \* number of invocations the model still allows
  timestamp,      \* package_all: the run's timestamp prefix
  pkg,            \* package_all: 1-based position in PACKAGES
  file_contents,  \* create_package: the rendered sections
  toc_entries,    \* create_package: the relative paths added so far
  seen_paths,     \* create_package: the deduplication set
  dir_i,          \* create_package: 1-based position in include_dirs
  console,        \* the lines printed by the current invocation
  out_dir,        \* whether root/code_packages exists
  disk,           \* the documents under root/code_packages, by file name
  log,            \* per invocation: the clock reading and the names reported
  start,          \* find_project_root: components of the resolved start path
  markers,        \* find_project_root: the directories holding Cargo.toml
  cur,            \* find_project_root: the loop variable
  found,          \* find_project_root: the returned directory
  lpc             \* find_project_root: position

packVars == <<files, dirs, PACKAGES, clock, pc, runs, timestamp, pkg, file_contents,
              toc_entries, seen_paths, dir_i, console, out_dir, disk, log>>
rootVars == <<start, markers, cur, found, lpc>>
vars == <<files, dirs, PACKAGES, clock, pc, runs, timestamp, pkg, file_contents,
          toc_entries, seen_paths, dir_i, console, out_dir, disk, log,
          start, markers, cur, found, lpc>>

(* ----------------------------- documents ------------------------------- *)
\* one string handed to f.write / f.writelines, or one element of
\* file_contents; the fields a kind does not use are empty
Chunk(kind, idx, path, created, modified, body) ==
  [kind |-> kind, idx |-> idx, path |-> path,
   created |-> created, modified |-> modified, body |-> body]

Plain(kind) == Chunk(kind, <<>>, "", <<>>, <<>>, <<>>)

\* add_file numbering the sections from zero
add_file_ZeroBased(contents, toc, f) ==
  [contents |-> Append(contents,
                  Chunk("SECTION", Fmt03d(Len(toc)), f, format_timestamp(CTimeOf(f)),
                        format_timestamp(MTimeOf(f)), rstrip(ContentOf(f)) \o <<10>>)),
   toc |-> Append(toc, f)]

\* add_file: the section of file f appended to contents, f appended to toc
add_file(contents, toc, f) ==
  LET rel_path == f
      content == ContentOf(f)
      ctime == format_timestamp(CTimeOf(f))
      mtime == format_timestamp(MTimeOf(f))
      idx == Len(toc) + 1
  IN [contents |-> Append(contents,
                     Chunk("SECTION", Fmt03d(idx), rel_path, ctime, mtime,
                           rstrip(content) \o <<10>>)),
      toc |-> Append(toc, rel_path)]

\* the collection loops without the test against seen_paths
RECURSIVE Collect_NoDedup(_, _)
Collect_NoDedup(st, cands) ==
  IF cands = <<>> THEN st
  ELSE LET r == add_file(st.contents, st.toc, Head(cands)) IN
       Collect_NoDedup([contents |-> r.contents, toc |-> r.toc,
                        seen |-> st.seen \cup {Head(cands)}], Tail(cands))

\* the body of both collection loops: each candidate not yet in seen_paths is
\* added with add_file and recorded
RECURSIVE Collect(_, _)
Collect(st, cands) ==
  IF cands = <<>> THEN st
  ELSE LET rel == Head(cands) IN
       IF rel \notin st.seen
       THEN LET r == add_file(st.contents, st.toc, rel) IN
            Collect([contents |-> r.contents, toc |-> r.toc,
                     seen |-> st.seen \cup {rel}], Tail(cands))
       ELSE Collect(st, Tail(cands))

\* the entries of a sequence that satisfy is_file(), in order
RECURSIVE ExistingFiles(_, _)
ExistingFiles(names, fs) ==
  IF names = <<>> THEN <<>>
  ELSE (IF Head(names) \in fs THEN <<Head(names)>> ELSE <<>>)
         \o ExistingFiles(Tail(names), fs)

\* an existence test that never fails
exists_Always(fs, ds, p) == TRUE

\* Path.exists(): the path names a file or a directory of the tree
exists(fs, ds, p) == p \in (fs \cup ds)

\* base_dir.rglob(pattern): every entry below base whose name matches
rglob(fs, ds, base, pattern) ==
  {p \in (fs \cup ds) \cap DOMAIN Chars :
     /\ IsUnder(Chars[p], Chars[base])
     /\ GlobMatch(Chars[pattern], BaseName(Chars[p]))}

\* the orders in which the filesystem may enumerate a set of entries
Enumerations(S) ==
  {e \in [1..Cardinality(S) -> S] : \A i, j \in 1..Cardinality(S) : e[i] = e[j] => i = j}

\* a sort key that keeps the case
SortKey_CaseSensitive(p) == Chars[p]

\* key=lambda p: p.relative_to(root).as_posix().lower()
SortKey(p) == Lower(Chars[p])

\* sorted(..., key=...): a stable sort, entries with equal keys stay in the
\* order of the input
RECURSIVE InsertSorted(_, _)
InsertSorted(x, s) ==
  IF s = <<>> THEN <<x>>
  ELSE IF StrLess(SortKey(x), SortKey(Head(s))) THEN <<x>> \o s
  ELSE <<Head(s)>> \o InsertSorted(x, Tail(s))

RECURSIVE sorted(_)
sorted(e) ==
  IF e = <<>> THEN <<>>
  ELSE InsertSorted(e[Len(e)], sorted(SubSeq(e, 1, Len(e) - 1)))

\* f"{timestamp}_{PROJECT_TITLE}_{suffix}.txt"
output_filename(ts, suffix) ==
  ts \o <<UNDERSCORE>> \o Chars[PROJECT_TITLE] \o <<UNDERSCORE>> \o Chars[suffix] \o DOT_TXT

\* a table of contents that always ends with the placeholder
toc_lines_AlwaysPlaceholder(toc) ==
  <<Plain("RULE"), Plain("TOC_TITLE"), Plain("RULE")>>
    \o [i \in 1..Len(toc) |-> Chunk("TOC_ENTRY", Fmt03d(i), toc[i], <<>>, <<>>, <<>>)]
    \o <<Plain("TOC_PLACEHOLDER"), Plain("RULE_BLANK")>>

\* the table-of-contents block
toc_lines(toc) ==
  <<Plain("RULE"), Plain("TOC_TITLE"), Plain("RULE")>>
    \o [i \in 1..Len(toc) |-> Chunk("TOC_ENTRY", Fmt03d(i), toc[i], <<>>, <<>>, <<>>)]
    \o (IF toc = <<>> THEN <<Plain("TOC_PLACEHOLDER")>> ELSE <<>>)
    \o <<Plain("RULE_BLANK")>>

\* everything written to the output file, in order
Document(description, header_time, toc, contents) ==
  << Plain("RULE"),
     Chunk("TITLE", <<>>, description, <<>>, <<>>, <<>>),
     Plain("GENERATED_BY"),
     Chunk("GENERATED_AT", <<>>, "", header_time, <<>>, <<>>),
     Plain("RULE_BLANK") >>
    \o toc_lines(toc) \o contents

(* ------------------------------ console ------------------------------- *)
\* one printed line: its kind, the text it names and, for the report of a
\* written document, the file name and the number of files
Out(kind, text, name, n) == [kind |-> kind, text |-> text, name |-> name, n |-> n]

(* --------------------------- initial states --------------------------- *)
FirstInstant == CHOOSE t \in Instants : \A u \in Instants : t <= u

RootIdle ==
  /\ start = <<>>
  /\ markers = {}
  /\ cur = <<>>
  /\ found = <<>>
  /\ lpc = "off"

PackIdle ==
  /\ clock = FirstInstant
  /\ pc = "idle"
  /\ timestamp = <<>>
  /\ pkg = 0
  /\ file_contents = <<>>
  /\ toc_entries = <<>>
  /\ seen_paths = {}
  /\ dir_i = 0
  /\ console = <<>>
  /\ out_dir = FALSE
  /\ disk = <<>>
  /\ log = <<>>

\* one invocation over any tree of at most MaxFiles files
Init ==
  /\ files \in {fs \in SUBSET Universe : Cardinality(fs) <= MaxFiles}
  /\ dirs \in {DirsOf(files) \cup extra : extra \in SUBSET DirUniverse}
  /\ PACKAGES \in PackageLists
  /\ runs = 1
  /\ PackIdle
  /\ RootIdle

\* the trees of the repeated invocations
RerunTrees == {{"src/a.rs", "src/A.rs"}, {"Cargo.toml", "src/mod.rs"}}

\* up to MaxRuns invocations, one after the other, over the same tree
InitRuns ==
  /\ files \in RerunTrees
  /\ dirs = DirsOf(files)
  /\ PACKAGES = OverlapPackages
  /\ runs = MaxRuns
  /\ PackIdle
  /\ RootIdle

(* ------------------------------ actions ------------------------------- *)
\* an error that is swallowed: the package is started again
Raise_Swallowed(kind, text) ==
  /\ pc' = "create"
  /\ console' = console
  /\ file_contents' = <<>>
  /\ toc_entries' = <<>>
  /\ seen_paths' = {}
  /\ dir_i' = 0

\* an exception leaves create_package and package_all: the locals are gone,
\* the process ends
Raise(kind, text) ==
  /\ pc' = "failed"
  /\ console' = Append(console, Out(kind, text, <<>>, 0))
  /\ file_contents' = <<>>
  /\ toc_entries' = <<>>
  /\ seen_paths' = {}
  /\ dir_i' = 0

\* package_all, up to the loop: the timestamp is taken once. Every reading of
\* the wall clock is at or after the one before (the local time is taken not
\* to be set back between two readings).
PackageAll ==
  /\ pc \in {"idle", "done", "failed"}
  /\ runs > 0
  /\ runs' = runs - 1
  /\ \E now \in Instants : now >= clock /\ clock' = now
  /\ timestamp' = format_output_timestamp(clock')
  /\ console' = << Out("Project root", "", <<>>, 0),
                   Out("Timestamp prefix", "", timestamp', 0) >>
  /\ log' = Append(log, [at |-> clock', out |-> <<>>])
  /\ pkg' = 1
  /\ pc' = IF PACKAGES = <<>> THEN "done" ELSE "create"
  /\ UNCHANGED <<files, dirs, PACKAGES, file_contents, toc_entries,
                 seen_paths, dir_i, out_dir, disk>>
  /\ UNCHANGED rootVars

\* create_package opening (and so truncating) its output file before it
\* collects anything
CreatePackageSetup_OpensFirst ==
  /\ pc = "create"
  /\ out_dir' = TRUE
  /\ console' = Append(console, Out("Creating", PACKAGES[pkg].suffix, <<>>, 0))
  /\ file_contents' = <<>>
  /\ toc_entries' = <<>>
  /\ seen_paths' = {}
  /\ dir_i' = 1
  /\ pc' = "root"
  /\ disk' = [f \in DOMAIN disk \cup {output_filename(timestamp, PACKAGES[pkg].suffix)} |->
                IF f = output_filename(timestamp, PACKAGES[pkg].suffix) THEN <<>> ELSE disk[f]]
  /\ UNCHANGED <<files, dirs, PACKAGES, clock, runs, timestamp, pkg, log>>
  /\ UNCHANGED rootVars

\* the loop of package_all announces the package; create_package makes the
\* output directory and starts with empty lists
CreatePackageSetup ==
  /\ pc = "create"
  /\ out_dir' = TRUE
  /\ console' = Append(console, Out("Creating", PACKAGES[pkg].suffix, <<>>, 0))
  /\ file_contents' = <<>>
  /\ toc_entries' = <<>>
  /\ seen_paths' = {}
  /\ dir_i' = 1
  /\ pc' = "root"
  /\ UNCHANGED <<files, dirs, PACKAGES, clock, runs, timestamp, pkg, disk, log>>
  /\ UNCHANGED rootVars

\* the loop over root_files; reading any of the files it adds may fail
CollectRootFiles ==
  /\ pc = "root"
  /\ LET cands == ExistingFiles(PACKAGES[pkg].root_files, files)
         st0 == [contents |-> file_contents, toc |-> toc_entries, seen |-> seen_paths]
     IN \/ LET st == Collect(st0, cands) IN
           /\ file_contents' = st.contents
           /\ toc_entries' = st.toc
           /\ seen_paths' = st.seen
           /\ pc' = IF PACKAGES[pkg].include_dirs = <<>> THEN "write" ELSE "dirs"
           /\ UNCHANGED <<console, dir_i>>
        \/ \E n \in 1..Len(cands) :
             /\ cands[n] \notin Collect(st0, SubSeq(cands, 1, n - 1)).seen
             /\ Raise("read error", cands[n])
  /\ UNCHANGED <<files, dirs, PACKAGES, clock, runs, timestamp, pkg, out_dir, disk, log>>
  /\ UNCHANGED rootVars

\* one round of the loop over include_dirs: a missing directory is reported
\* and skipped; otherwise its matches are enumerated in some order, sorted, and
\* the unseen ones added. A match that is not a regular file cannot be read.
CollectIncludeDir ==
  /\ pc = "dirs"
  /\ LET base_dir_name == PACKAGES[pkg].include_dirs[dir_i]
         pattern == PACKAGES[pkg].file_pattern
         st0 == [contents |-> file_contents, toc |-> toc_entries, seen |-> seen_paths]
         last == dir_i = Len(PACKAGES[pkg].include_dirs)
     IN IF ~exists(files, dirs, base_dir_name)
        THEN /\ console' = Append(console, Out("Warning", base_dir_name, <<>>, 0))
             /\ dir_i' = dir_i + 1
             /\ pc' = IF last THEN "write" ELSE "dirs"
             /\ UNCHANGED <<file_contents, toc_entries, seen_paths>>
        ELSE \E e \in Enumerations(rglob(files, dirs, base_dir_name, pattern)) :
               LET cands == sorted(e) IN
               \/ LET st == Collect(st0, cands) IN
                  /\ \A p \in st.seen \ seen_paths : p \in files
                  /\ file_contents' = st.contents
                  /\ toc_entries' = st.toc
                  /\ seen_paths' = st.seen
                  /\ dir_i' = dir_i + 1
                  /\ pc' = IF last THEN "write" ELSE "dirs"
                  /\ UNCHANGED console
               \/ \E n \in 1..Len(cands) :
                    LET before == Collect(st0, SubSeq(cands, 1, n - 1)) IN
                    /\ cands[n] \notin before.seen
                    /\ \A p \in before.seen \ seen_paths : p \in files
                    /\ Raise("read error", cands[n])
  /\ UNCHANGED <<files, dirs, PACKAGES, clock, runs, timestamp, pkg, out_dir, disk, log>>
  /\ UNCHANGED rootVars

\* the number of strings that reached the file when writing fails: none, the
\* five header strings, or the header and the table of contents
PartialWrites(doc, toc) == {n \in {0, 5, 5 + Len(toc_lines(toc))} : n < Len(doc)}

\* the table of contents is built, the output file is opened for writing
\* (created or truncated) and written; opening may fail, and writing may fail
\* part of the way. The written document is reported, and after the last
\* package the summary is printed.
WriteOutput ==
  /\ pc = "write"
  /\ \E now \in Instants : now >= clock /\ clock' = now
  /\ LET suffix == PACKAGES[pkg].suffix
         name == output_filename(timestamp, suffix)
         header_time == format_timestamp(<<clock', 0>>)
         doc == Document(PACKAGES[pkg].description, header_time, toc_entries, file_contents)
     IN \/ /\ disk' = [f \in DOMAIN disk \cup {name} |-> IF f = name THEN doc ELSE disk[f]]
           /\ log' = [log EXCEPT ![Len(log)].out = Append(@, name)]
           /\ IF pkg < Len(PACKAGES)
              THEN /\ console' = Append(console, Out("Written", suffix, name, Len(file_contents)))
                   /\ pkg' = pkg + 1
                   /\ pc' = "create"
              ELSE /\ console' = console \o << Out("Written", suffix, name, Len(file_contents)),
                                              Out("All packages created", "", <<>>, 0) >>
                   /\ pkg' = pkg
                   /\ pc' = "done"
           /\ file_contents' = <<>>
           /\ toc_entries' = <<>>
           /\ seen_paths' = {}
           /\ dir_i' = 0
        \/ /\ Raise("open error", suffix)
           /\ UNCHANGED <<disk, log, pkg>>
        \/ \E n \in PartialWrites(doc, toc_entries) :
             /\ disk' = [f \in DOMAIN disk \cup {name} |->
                           IF f = name THEN SubSeq(doc, 1, n) ELSE disk[f]]
             /\ Raise("write error", suffix)
             /\ UNCHANGED <<log, pkg>>
  /\ UNCHANGED <<files, dirs, PACKAGES, runs, timestamp, out_dir>>
  /\ UNCHANGED rootVars

Next ==
  \/ PackageAll
  \/ CreatePackageSetup
  \/ CollectRootFiles
  \/ CollectIncludeDir
  \/ WriteOutput

Spec == Init /\ [][Next]_vars

SpecRuns == InitRuns /\ [][Next]_vars

(* --------------------------- root locator ----------------------------- *)
\* A resolved absolute path is the sequence of its components; <<>> is the
\* filesystem root, which is its own parent.
Parent(p) == IF p = <<>> THEN <<>> ELSE SubSeq(p, 1, Len(p) - 1)

Components == {"a", "b"}

\* the resolved start paths: up to MaxDepth components
StartPaths == UNION {[1..n -> Components] : n \in 0..MaxDepth}

\* the path itself and every directory above it
Prefixes(p) == {SubSeq(p, 1, n) : n \in 0..Len(p)}

InitRoot ==
  /\ start \in StartPaths
  /\ markers \in SUBSET Prefixes(start)
  /\ cur = <<>>
  /\ found = <<>>
  /\ lpc = "enter"
  /\ files = {}
  /\ dirs = {}
  /\ PACKAGES = <<>>
  /\ runs = 0
  /\ PackIdle

\* cur = Path(start or __file__).resolve().parent
LocateEnter ==
  /\ lpc = "enter"
  /\ cur' = Parent(start)
  /\ lpc' = "loop"
  /\ UNCHANGED <<start, markers, found>>
  /\ UNCHANGED packVars

\* one round of the loop: return cur when it holds the marker, else go up
LocateStep ==
  /\ lpc = "loop"
  /\ cur # Parent(cur)
  /\ IF cur \in markers
     THEN /\ found' = cur
          /\ lpc' = "returned"
          /\ cur' = cur
     ELSE /\ cur' = Parent(cur)
          /\ UNCHANGED <<found, lpc>>
  /\ UNCHANGED <<start, markers>>
  /\ UNCHANGED packVars

\* the loop is left without a return: the parent of the start path is returned
LocateFallback ==
  /\ lpc = "loop"
  /\ cur = Parent(cur)
  /\ found' = Parent(start)
  /\ lpc' = "returned"
  /\ UNCHANGED <<start, markers, cur>>
  /\ UNCHANGED packVars

NextRoot ==
  \/ LocateEnter
  \/ LocateStep
  \/ LocateFallback

SpecRoot == InitRoot /\ [][NextRoot]_vars

(* ======================= properties of the model ======================= *)
\* the table-of-contents entries and the sections of a document
TocOf(doc) == SelectSeq(doc, LAMBDA c : c.kind = "TOC_ENTRY")
SectionsOf(doc) == SelectSeq(doc, LAMBDA c : c.kind = "SECTION")
HasPlaceholder(doc) == \E i \in 1..Len(doc) : doc[i].kind = "TOC_PLACEHOLDER"

\* a document that holds everything create_package writes
Complete(doc) ==
  LET n == Len(TocOf(doc)) IN
  /\ Len(doc) = 5 + 3 + (IF n = 0 THEN 1 ELSE n) + 1 + n
  /\ Len(SectionsOf(doc)) = n

NoDuplicates(s) == \A i, j \in 1..Len(s) : s[i] = s[j] => i = j
Range(s) == {s[i] : i \in 1..Len(s)}
Pos(s, x) == CHOOSE i \in 1..Len(s) : s[i] = x

\* the names reported by the current invocation
Reported == IF log = <<>> THEN <<>> ELSE log[Len(log)].out

\* the entries of a sequence, each at its first occurrence only
RECURSIVE FirstOccurrences(_, _)
FirstOccurrences(s, seen) ==
  IF s = <<>> THEN <<>>
  ELSE IF Head(s) \in seen THEN FirstOccurrences(Tail(s), seen)
  ELSE <<Head(s)>> \o FirstOccurrences(Tail(s), seen \cup {Head(s)})

\* the files package P lists as root files and that exist, in listed order
RootsOf(P) == FirstOccurrences(ExistingFiles(P.root_files, files), {})

\* the entries below the d-th include directory of P that match its pattern
MatchesOf(P, d) ==
  IF P.include_dirs[d] \in (dirs \cup files)
  THEN rglob(files, dirs, P.include_dirs[d], P.file_pattern)
  ELSE {}

\* the first include directory of P whose traversal yields p
FirstDir(P, p) ==
  CHOOSE d \in 1..Len(P.include_dirs) :
    /\ p \in MatchesOf(P, d)
    /\ \A e \in 1..(d - 1) : p \notin MatchesOf(P, e)

\* C1: in every document create_package has written, the table of contents
\* lists every collected path exactly once, in the order of the sections, and
\* the index in each section header is the 1-based index of its TOC entry,
\* so the sections are numbered 1..n without a gap.
C1_TocMatchesSections ==
  /\ pc = "write" =>
       /\ NoDuplicates(toc_entries)
       /\ Len(file_contents) = Len(toc_entries)
       /\ \A i \in 1..Len(toc_entries) : file_contents[i].path = toc_entries[i]
  /\ \A i \in 1..Len(Reported) :
       LET doc == disk[Reported[i]]
           toc == TocOf(doc)
           sec == SectionsOf(doc)
       IN /\ Len(toc) = Len(sec)
          /\ NoDuplicates([k \in 1..Len(toc) |-> toc[k].path])
          /\ \A k \in 1..Len(sec) :
               /\ sec[k].path = toc[k].path
               /\ sec[k].idx = toc[k].idx
               /\ Len(sec[k].idx) >= 3
               /\ DigitsValue(sec[k].idx) = k

C1_Witness ==
  \E i \in 1..Len(Reported) : Len(SectionsOf(disk[Reported[i]])) >= 3

\* C2: a path that is an existing root file and is also found by the
\* traversal of an include directory, or is found under more than one include
\* directory, is collected exactly once, at its first occurrence: the root
\* files stand first in their listed order, and a path found under several
\* directories stands with the files of the first of them.
C2_Deduplication ==
  pc = "write" =>
    LET P == PACKAGES[pkg]
        roots == RootsOf(P)
        later == Range(toc_entries) \ Range(roots)
    IN /\ NoDuplicates(toc_entries)
       /\ SubSeq(toc_entries, 1, Len(roots)) = roots
       /\ \A d \in 1..Len(P.include_dirs) :
            (MatchesOf(P, d) \cup Range(roots)) \subseteq Range(toc_entries)
       /\ \A p, q \in later :
            FirstDir(P, p) < FirstDir(P, q) => Pos(toc_entries, p) < Pos(toc_entries, q)

C2_Witness ==
  /\ pc = "write"
  /\ \E d \in 1..Len(PACKAGES[pkg].include_dirs) :
       /\ \E p \in MatchesOf(PACKAGES[pkg], d) : p \in Range(RootsOf(PACKAGES[pkg]))
       /\ \E e \in 1..(d - 1) : \E p \in MatchesOf(PACKAGES[pkg], d) :
            p \in MatchesOf(PACKAGES[pkg], e) /\ p \notin Range(RootsOf(PACKAGES[pkg]))

\* case-insensitive lexicographic order of two root-relative paths
FoldLess(x, y) == StrLess(Lower(Chars[x]), Lower(Chars[y]))

\* the collected sequence is the existing root files in listed order, then,
\* directory by directory, the matches not seen before
C3_Sequence ==
  LET P == PACKAGES[pkg]
      roots == RootsOf(P)
  IN /\ NoDuplicates(toc_entries)
     /\ SubSeq(toc_entries, 1, Len(roots)) = roots
     /\ Range(toc_entries) =
          Range(roots) \cup UNION {MatchesOf(P, d) : d \in 1..Len(P.include_dirs)}
     /\ \A i, j \in (Len(roots) + 1)..Len(toc_entries) :
          i < j => FirstDir(P, toc_entries[i]) <= FirstDir(P, toc_entries[j])

\* C3 (as amended): the collected sequence is the existing root files in
\* listed order, followed, for each include directory in listed order, by its
\* not-yet-seen matches in case-insensitive lexicographic order of their
\* root-relative paths; two files that are both first collected under the
\* same include directory stand in that order.
C3_CollectionOrder ==
  pc = "write" =>
    /\ C3_Sequence
    /\ \A i, j \in (Len(RootsOf(PACKAGES[pkg])) + 1)..Len(toc_entries) :
         /\ i < j
         /\ FirstDir(PACKAGES[pkg], toc_entries[i]) = FirstDir(PACKAGES[pkg], toc_entries[j])
         => ~FoldLess(toc_entries[j], toc_entries[i])

\* C3 (as claimed): ... and any two files matched under the same include
\* directory stand in case-insensitive lexicographic order, whether or not
\* one of them was collected earlier.
C3_AsClaimed ==
  pc = "write" =>
    /\ C3_Sequence
    /\ \A d \in 1..Len(PACKAGES[pkg].include_dirs) :
         \A x, y \in MatchesOf(PACKAGES[pkg], d) :
           FoldLess(x, y) => Pos(toc_entries, x) < Pos(toc_entries, y)

C3_Witness ==
  /\ pc = "write"
  /\ toc_entries = <<"Cargo.toml", "src/a.rs", "src/B.rs">>

\* the lines printed while package j was processed
CreatingLine(j) == Out("Creating", PACKAGES[j].suffix, <<>>, 0)
SegmentOf(j) ==
  LET from == Pos(console, CreatingLine(j))
      ends == {i \in (from + 1)..Len(console) : console[i].kind = "Creating"}
      to == IF ends = {} THEN Len(console)
            ELSE (CHOOSE i \in ends : \A k \in ends : i <= k) - 1
  IN SubSeq(console, from, to)

MissingDirs(P) ==
  {P.include_dirs[d] : d \in {e \in 1..Len(P.include_dirs) :
                                 P.include_dirs[e] \notin (dirs \cup files)}}

\* create_package has returned for package j in the current invocation
Returned(j) == CreatingLine(j) \in Range(console) /\ (j < pkg \/ pc = "done")

\* C4: a package with an include directory that does not exist gets a
\* warning for that directory; its root files and other directories are still
\* collected and its document is still written, and the loop goes on to the
\* next package. A read error is about a file that exists, never about a
\* missing directory.
C4_MissingDirectorySkipped ==
  /\ \A i \in 1..Len(console) :
       console[i].kind = "read error" => console[i].text \in files
  /\ \A j \in 1..Len(PACKAGES) :
       (Returned(j) /\ MissingDirs(PACKAGES[j]) # {}) =>
         LET P == PACKAGES[j]
             name == output_filename(timestamp, P.suffix)
         IN /\ \A m \in MissingDirs(P) : Out("Warning", m, <<>>, 0) \in Range(SegmentOf(j))
            /\ name \in DOMAIN disk
            /\ Complete(disk[name])
            /\ {c.path : c \in Range(TocOf(disk[name]))} =
                 Range(RootsOf(P)) \cup UNION {MatchesOf(P, d) : d \in 1..Len(P.include_dirs)}
            /\ j < Len(PACKAGES) =>
                 \/ CreatingLine(j + 1) \in Range(console)
                 \/ pc = "create" /\ pkg = j + 1

\* the src package of the overlapping list, tests missing, both others found
C4_Witness ==
  /\ pc = "done"
  /\ PACKAGES = OverlapPackages
  /\ "tests" \notin dirs
  /\ files = {"Cargo.toml", "src/mod.rs"}

\* C9: the table of contents of a written document holds the line
\* "(no files included)" exactly when no file was collected, and otherwise one
\* numbered line for each collected file.
C9_Placeholder ==
  [][ (pc = "write" /\ pc' \in {"create", "done"}) =>
        LET doc == disk'[output_filename(timestamp, PACKAGES[pkg].suffix)] IN
        /\ HasPlaceholder(doc) <=> toc_entries = <<>>
        /\ [k \in 1..Len(TocOf(doc)) |-> TocOf(doc)[k].path] = toc_entries
        /\ Cardinality({i \in 1..Len(doc) : doc[i].kind = "TOC_PLACEHOLDER"}) <= 1 ]_vars

\* the tests package of the script with the tests directory absent
C9_Witness ==
  /\ PACKAGES = RepoPackages
  /\ Len(Reported) >= 2
  /\ HasPlaceholder(disk[Reported[2]])
  /\ Out("Warning", "tests", <<>>, 0) \in Range(console)
  /\ ~HasPlaceholder(disk[Reported[1]])

\* the output file name of package j in the current invocation
NameOf(j) == output_filename(timestamp, PACKAGES[j].suffix)

\* the number of packages whose document the current invocation has written
WrittenCount == IF pc = "done" THEN Len(PACKAGES) ELSE pkg - 1

\* C8: the packages are processed one after the other in the order of
\* PACKAGES, and the first read or write failure ends the run: with the
\* failure in package k, the documents of the packages before k are on disk
\* and complete, and nothing exists for a package after k. (One invocation,
\* starting from an empty output directory.)
C8_FirstFailureIsFatal ==
  log # <<>> =>
    /\ Reported = [j \in 1..WrittenCount |-> NameOf(j)]
    /\ \A j \in 1..Len(PACKAGES) :
         /\ j <= WrittenCount => NameOf(j) \in DOMAIN disk /\ Complete(disk[NameOf(j)])
         /\ (j > WrittenCount /\ NameOf(j) \in DOMAIN disk) =>
              pc = "failed" /\ j = pkg /\ ~Complete(disk[NameOf(j)])
         /\ CreatingLine(j) \in Range(console) => j <= pkg
    /\ pc = "failed" =>
         console[Len(console)].kind \in {"read error", "open error", "write error"}

C8_Witness ==
  /\ pc = "failed"
  /\ PACKAGES = RepoPackages
  /\ pkg = 2
  /\ console[Len(console)].kind = "write error"
  /\ NameOf(2) \in DOMAIN disk
  /\ Len(SectionsOf(disk[NameOf(1)])) >= 2

\* C10: from the start of create_package to the end of the collection no
\* document is created, truncated or changed; so when reading an input file of
\* package k fails, the document of package k is as it was before, also one
\* left under the same name by an earlier invocation in the same second.
C10_ReadsBeforeOpen ==
  [][ (pc \in {"create", "root", "dirs"}) => (disk' = disk) ]_vars

C10_Witness ==
  /\ pc = "failed"
  /\ console[Len(console)].kind = "read error"
  /\ NameOf(pkg) \in DOMAIN disk
  /\ Complete(disk[NameOf(pkg)])
  /\ out_dir

\* the names reported by all invocations so far, with the invocation's number
AllReported == UNION {{<<r, log[r].out[i]>> : i \in 1..Len(log[r].out)} : r \in 1..Len(log)}
SecondOfRun(r) == log[r].at \div MS_PER_SECOND
PREFIX_LEN == 15
PrefixOf(name) == SubSeq(name, 1, PREFIX_LEN)

\* C7: within one invocation every output file name is the same 15-character
\* timestamp, then "_secure_gate_", the package's suffix and ".txt"; and over
\* all invocations the names of a later invocation sort after the names of an
\* earlier one unless both ran within the same second (then the names are the
\* same), so that the sorted names keep each invocation's files together.
C7_SortableNames ==
  /\ \A r \in 1..Len(log) : \A i \in 1..Len(log[r].out) :
       LET name == log[r].out[i] IN
       /\ Len(name) > PREFIX_LEN
       /\ PrefixOf(name) = PrefixOf(log[r].out[1])
       /\ SubSeq(name, PREFIX_LEN + 1, Len(name)) =
            <<UNDERSCORE>> \o Chars[PROJECT_TITLE] \o <<UNDERSCORE>>
              \o Chars[PACKAGES[i].suffix] \o DOT_TXT
  /\ \A x, y \in AllReported :
       x[1] < y[1] =>
         IF SecondOfRun(x[1]) = SecondOfRun(y[1])
         THEN PrefixOf(x[2]) = PrefixOf(y[2])
         ELSE StrLess(x[2], y[2])
  /\ \A x, y, z \in AllReported :
       (x[1] = z[1] /\ StrLess(x[2], y[2]) /\ StrLess(y[2], z[2]))
         => PrefixOf(y[2]) = PrefixOf(x[2])

C7_Witness ==
  /\ Len(log) >= 2
  /\ SecondOfRun(1) # SecondOfRun(2)
  /\ Len(log[1].out) = 2
  /\ Len(log[2].out) = 2

\* the part of an output file name after the timestamp
TailOf(name) == SubSeq(name, PREFIX_LEN + 1, Len(name))

\* C6: two complete documents of the same package, written by two
\* invocations over the same tree, have the same table of contents and the
\* same sections, however the filesystem enumerated the directories.
C6_AsClaimed ==
  \A n1, n2 \in DOMAIN disk :
    (Complete(disk[n1]) /\ Complete(disk[n2]) /\ TailOf(n1) = TailOf(n2)) =>
      /\ TocOf(disk[n1]) = TocOf(disk[n2])
      /\ SectionsOf(disk[n1]) = SectionsOf(disk[n2])

\* the directories from the starting directory up to the filesystem root
\* that hold the marker
MarkedAbove(dir) == {p \in Prefixes(dir) : p \in markers}

\* C5: find_project_root returns the nearest directory, from the directory of
\* the start path upwards, that holds Cargo.toml, and the directory of the
\* start path when none of them does.
C5_AsClaimed ==
  lpc = "returned" =>
    LET dir == Parent(start) IN
    IF MarkedAbove(dir) = {} THEN found = dir
    ELSE /\ found \in MarkedAbove(dir)
         /\ \A p \in MarkedAbove(dir) : Len(p) <= Len(found)

====
